---- MODULE Spec2Model ----
(***************************************************************************)
(* A model of react-viewmodel (src/src/index.tsx): the observing proxy    *)
(* factory (useViewModel / createProxy, its get and set traps), the       *)
(* selector subscription (useSubscribe and its checkForUpdates effect)    *)
(* and the context bridge (ViewModelProvider / useViewModelContext),      *)
(* driven by the view-model classes of src/src/hook.spec.tsx.             *)
(***************************************************************************)
EXTENDS Integers, Sequences, FiniteSets, TLC

\* the deepest nesting of providers in the model
MaxDepth == 2

\* the most nested values a caller keeps references to at a time
MaxHeld == 2

(***************************************************************************)
(* Property keys.  A key is named by its text; Chars gives the characters  *)
(* of a string key, so that prop.includes('.') is computed over them, and  *)
(* KeyType tells a string key from a symbol key.                           *)
(***************************************************************************)
count == "count"

text == "text"

nested == "nested"

other == "other"

foo == "foo"

\* the field the code reads the declared list from (Watchable.properties)
propertiesKey == "properties"

\* the field the test classes and the readme declare the list in
atPropertiesKey == "@@properties"

\* a dotted (synthetic) key, as in proxy['nested.foo'] = v
dottedKey == "nested.foo"

\* a symbol key, Symbol('s.y'), whose description holds a dot
symbolKey == "Symbol(s.y)"

\* the keys that hold ordinary values in the model's heap
FieldKeys == {count, text, nested, other, foo, atPropertiesKey, dottedKey, symbolKey}

\* typeof prop
KeyType(prop) == IF prop = symbolKey THEN "symbol" ELSE "string"

\* the characters of a key's text
Chars(prop) ==
  CASE prop = count -> <<"c", "o", "u", "n", "t">>
    [] prop = text -> <<"t", "e", "x", "t">>
    [] prop = nested -> <<"n", "e", "s", "t", "e", "d">>
    [] prop = other -> <<"o", "t", "h", "e", "r">>
    [] prop = foo -> <<"f", "o", "o">>
    [] prop = propertiesKey -> <<"p", "r", "o", "p", "e", "r", "t", "i", "e", "s">>
    [] prop = atPropertiesKey -> <<"@", "@", "p", "r", "o", "p", "e", "r", "t", "i", "e", "s">>
    [] prop = dottedKey -> <<"n", "e", "s", "t", "e", "d", ".", "f", "o", "o">>
    [] prop = symbolKey -> <<"s", ".", "y">>

(***************************************************************************)
(* Values.  Primitives are compared by value, objects by identity; NaN is *)
(* the one primitive that is strictly unequal to itself.                  *)
(***************************************************************************)
Undefined == "undefined"

Null == "null"

NaN == "NaN"

\* an array object that carries no 'properties' field (a declared list itself)
PlainArray == "[...]"

\* marks a key that is not an own property of the object
Absent == "<absent>"

\* the two objects of the test fixture: new MyState() and its new NestedState()
Objs == {"state", "nested"}

Primitives == {"0", "1", NaN}

\* the values the fixture's typed fields take: count is a number (count++ of a
\* non-number gives NaN), text, other and foo are strings
ValuesOf(prop) == IF prop = count THEN {"0", "1", NaN} ELSE {"0", "1"}

TypeOf(v) ==
  IF v \in Objs \cup {Null, PlainArray} THEN "object"
  ELSE IF v = Undefined THEN "undefined"
  ELSE "primitive"

\* a !== b
StrictNe(a, b) == a # b \/ a = NaN

\* the identity of a newly constructed object: one that no live reference has
\* (the least such, identities of unreachable objects being unobservable)
FreshId(live) ==
  CHOOSE i \in 1..(Cardinality(live) + 1) : i \notin live /\ \A j \in 1..(i - 1) : j \in live

\* the object a selector such as s => ({ text: s.text }) builds around the
\* value it read: named by its content and its identity
Composite(content, id) ==
  CASE content = "0" /\ id = 1 -> "{text:0}#1"
    [] content = "0" /\ id = 2 -> "{text:0}#2"
    [] content = "0" /\ id = 3 -> "{text:0}#3"
    [] content = "1" /\ id = 1 -> "{text:1}#1"
    [] content = "1" /\ id = 2 -> "{text:1}#2"
    [] content = "1" /\ id = 3 -> "{text:1}#3"

Composites == {Composite(c, i) : c \in {"0", "1"}, i \in 1..3}

\* the identity of an object a selector built (0 for any other value)
IdOf(v) ==
  IF v \in Composites
  THEN CHOOSE i \in 1..3 : \E c \in {"0", "1"} : v = Composite(c, i)
  ELSE 0

\* what a deep comparison looks at: the content of an object a selector
\* built, the value itself otherwise
ContentOf(v) ==
  IF v \in Composites
  THEN CHOOSE c \in {"0", "1"} : \E i \in 1..3 : v = Composite(c, i)
  ELSE v

\* no declared list: the object has no 'properties' field
NoList == [has |-> FALSE, list |-> {}]

Declared(list) == [has |-> TRUE, list |-> list]

VARIABLES
  fields,        \* fields[o][k]: the own property k of object o, or Absent
  properties,    \* properties[o]: the object's 'properties' field (its declared list)
  call,          \* the most recent call made to the library or the model, with its outcome
  mounted,       \* whether the subscribing component is mounted
  args,          \* the arguments the component passes to useSubscribe
  selectedValue, \* selectedValue.current, the binding's cache (useRef)
  queued,        \* forceUpdate((x) => x + 1) updaters queued and not yet rendered (the
                 \* counter of useState(0) itself is never read: [, forceUpdate])
  effectPending, \* the useEffect callback is scheduled and has not run yet
  returned,      \* what useSubscribe returned to the last render
  provided,      \* the values published by the mounted providers, outermost first
  held           \* the nested values a caller read through the root proxy and kept

heap == <<fields, properties>>

binding == <<mounted, args, selectedValue, queued, effectPending, returned>>

vars == <<fields, properties, call, mounted, args, selectedValue, queued,
          effectPending, returned, provided, held>>

(***************************************************************************)
(* Object access                                                          *)
(***************************************************************************)
\* Reflect.get(target, prop, receiver) / target[prop] on a data property
ReflectGet(flds, target, prop) ==
  IF flds[target][prop] = Absent THEN Undefined ELSE flds[target][prop]

\* Object.keys(target): the own enumerable string keys
ObjectKeys(flds, props, target) ==
  {k \in FieldKeys : KeyType(k) = "string" /\ flds[target][k] # Absent}
    \cup (IF props[target].has THEN {propertiesKey} ELSE {})

\* Array.isArray(target): the fixture's objects are class instances
IsArray(target) == FALSE

\* 'properties' in value
HasPropertiesField(props, value) == value \in Objs /\ props[value].has

\* prop.includes('.')
Includes(chars, ch) == \E i \in 1..Len(chars) : chars[i] = ch

(***************************************************************************)
(* The proxy handler                                                       *)
(***************************************************************************)
\* a variant of handler.get that wraps every value carrying a list and
\* leaves the list the value declared as it is
getKeepsList(flds, props, target, prop) ==
  LET value == ReflectGet(flds, target, prop) IN
  [value |-> value,
   proxied |-> TypeOf(value) = "object" /\ value # Null /\ HasPropertiesField(props, value),
   props |-> props]

\* handler.get: the value read, whether it comes back wrapped in a new proxy,
\* and the declared lists after the read (the trap rewrites the nested list)
get(flds, props, target, prop) ==
  LET value == ReflectGet(flds, target, prop) IN
  IF TypeOf(value) = "object" /\ value # Null /\ HasPropertiesField(props, value)
  THEN LET props1 == IF ~IsArray(target)
                     THEN [props EXCEPT ![value] = Declared(ObjectKeys(flds, props, target))]
                     ELSE props
       IN [value |-> value, proxied |-> prop \in props1[value].list, props |-> props1]
  ELSE [value |-> value, proxied |-> FALSE, props |-> props]

\* const isNestedProp = typeof prop === 'string' && prop.includes('.')
isNestedProp(prop) == KeyType(prop) = "string" /\ Includes(Chars(prop), ".")

\* target.properties.includes(prop) || isNestedProp, for a target with a list
SetAllowed(props, target, prop) ==
  prop \in props[target].list \/ isNestedProp(prop)

\* handler.set: the fields after the write and how the trap completed:
\* "true" (the trap returned true) or "TypeError" (target.properties is
\* undefined and .includes was called on it)
set(flds, props, target, prop, value) ==
  IF StrictNe(ReflectGet(flds, target, prop), value)
  THEN IF ~props[target].has
       THEN [flds |-> flds, completion |-> "TypeError"]
       ELSE IF SetAllowed(props, target, prop)
            THEN [flds |-> [flds EXCEPT ![target][prop] = value], completion |-> "true"]
            ELSE [flds |-> flds, completion |-> "true"]
  ELSE [flds |-> flds, completion |-> "true"]

\* a plain assignment target[prop] = value on the raw object
RawAssign(flds, target, prop, value) == [flds EXCEPT ![target][prop] = value]

(***************************************************************************)
(* Initial heap: new MyState() with its NestedState, for each way the two *)
(* classes can declare their observable lists                             *)
(***************************************************************************)
StateDeclarations == {NoList, Declared({count, text}), Declared({count, text, nested})}

NestedDeclarations == {NoList, Declared({foo})}

InitFields(stateDecl, nestedDecl) ==
  [o \in Objs |->
    [k \in FieldKeys |->
      IF o = "state" THEN
        CASE k \in {count, text, other} -> "0"
          [] k = nested -> "nested"
          [] k = atPropertiesKey -> IF stateDecl.has THEN Absent ELSE PlainArray
          [] OTHER -> Absent
      ELSE
        CASE k = foo -> "0"
          [] k = atPropertiesKey -> IF nestedDecl.has THEN Absent ELSE PlainArray
          [] OTHER -> Absent]]

NoCall == [op |-> "none"]

\* the selectors of the test components, as the path of keys each reads:
\* s => s.count, s => s.text, s => s.nested.foo
Selectors == {<<count>>, <<text>>, <<nested, foo>>}

\* selector(stateController): the keys are read in turn, through handler.get
\* while the object at hand is a proxy and directly once it is a raw object;
\* gives the value selected and the declared lists after the reads
RECURSIVE Select(_, _, _, _, _)
Select(path, flds, props, obj, wrapped) ==
  LET g == IF wrapped
           THEN get(flds, props, obj, Head(path))
           ELSE [value |-> ReflectGet(flds, obj, Head(path)), proxied |-> FALSE,
                 props |-> props]
  IN IF Len(path) = 1
     THEN [value |-> g.value, props |-> g.props]
     ELSE Select(Tail(path), flds, g.props, g.value, g.proxied)

\* ends the path of a selector that returns a newly constructed object
\* holding what it read: <<text, construct>> is s => ({ text: s.text })
construct == "{...}"

\* the selectors of a subscribed component: the tests' and one that constructs
BindingSelectors == Selectors \cup {<<text, construct>>}

Constructs(sel) == sel[Len(sel)] = construct

\* the keys the selector reads
PathOf(sel) == IF Constructs(sel) THEN SubSeq(sel, 1, Len(sel) - 1) ELSE sel

\* the objects built by the selector that the binding still refers to: the
\* cache and what the last render returned
LiveComposites == {IdOf(selectedValue), IdOf(returned)} \ {0}

selector(a, flds, props) ==
  LET s == Select(PathOf(a.selector), flds, props, "state", a.viaProxy) IN
  IF Constructs(a.selector)
  THEN [value |-> Composite(s.value, FreshId(LiveComposites)), props |-> s.props]
  ELSE s

\* the object and the key of the selector's last read
SelectedTarget(a) ==
  IF Len(PathOf(a.selector)) = 1 THEN "state"
  ELSE ReflectGet(fields, "state", Head(a.selector))

SelectedProp(a) == PathOf(a.selector)[Len(PathOf(a.selector))]

\* the call before was an assignment that replaced the value of the property
\* the selector reads by another value
Overwrote ==
  /\ call.op \in {"set", "rawset"}
  /\ call.target = SelectedTarget(args) /\ call.prop = SelectedProp(args)
  /\ StrictNe(call.old, call.value)
  /\ ReflectGet(fields, call.target, call.prop) = call.value

NoArgs == [selector |-> <<count>>, stable |-> FALSE, viaProxy |-> FALSE]

\* the state after construction, for given declarations of the two classes
InitWith(stateDecl, nestedDecl) ==
  /\ fields = InitFields(stateDecl, nestedDecl)
  /\ properties = [o \in Objs |-> IF o = "state" THEN stateDecl ELSE nestedDecl]
  /\ call = NoCall
  /\ mounted = FALSE
  /\ args = NoArgs
  /\ selectedValue = Undefined
  /\ queued = 0
  /\ effectPending = FALSE
  /\ returned = Undefined
  /\ provided = <<>>
  /\ held = <<>>

Init ==
  \E stateDecl \in StateDeclarations, nestedDecl \in NestedDeclarations :
    InitWith(stateDecl, nestedDecl)

(***************************************************************************)
(* Writes                                                                  *)
(***************************************************************************)
\* the keys and values a caller assigns through a proxy in SpecHandler
WriteKeys == {count, other, foo, dottedKey, symbolKey}

WriteValues == {"0", NaN}

\* a variant of the root proxy's write in which the trap also notifies the
\* subscriber (queues an update) on every call, dropped writes included
ProxySetNotifies(prop, value) ==
  LET r == set(fields, properties, "state", prop, value) IN
  /\ fields' = r.flds
  /\ queued' = queued + 1
  /\ call' = [op |-> "set", target |-> "state", prop |-> prop, value |-> value,
              old |-> ReflectGet(fields, "state", prop), viaProxy |-> TRUE,
              completion |-> r.completion]
  /\ UNCHANGED <<properties, mounted, args, selectedValue, effectPending, returned, provided, held>>

\* proxy[prop] = value on the root proxy returned by useViewModel(state)
ProxySet(prop, value) ==
  LET r == set(fields, properties, "state", prop, value) IN
  /\ fields' = r.flds
  /\ UNCHANGED properties
  /\ call' = [op |-> "set", target |-> "state", prop |-> prop, value |-> value,
              old |-> ReflectGet(fields, "state", prop), viaProxy |-> TRUE,
              completion |-> r.completion]
  /\ UNCHANGED <<binding, provided, held>>

\* proxy.nested[prop] = value: the nested object is read through the root
\* proxy (handler.get) and the assignment goes to whatever the read returned,
\* a nested proxy (handler.set) or the raw nested object
NestedSet(prop, value) ==
  LET g == get(fields, properties, "state", nested)
      r == IF g.proxied
           THEN set(fields, g.props, g.value, prop, value)
           ELSE [flds |-> RawAssign(fields, g.value, prop, value), completion |-> "true"]
  IN
  /\ fields' = r.flds
  /\ properties' = g.props
  /\ call' = [op |-> "set", target |-> g.value, prop |-> prop, value |-> value,
              old |-> ReflectGet(fields, g.value, prop), viaProxy |-> g.proxied,
              completion |-> r.completion]
  /\ UNCHANGED <<binding, provided, held>>

\* a method of the raw model object assigning this[prop] = value
\* (state.increment(), state.setText(v), state.setOther(v), state.nested.setFoo(v))
RawSet(target, prop, value) ==
  /\ fields' = RawAssign(fields, target, prop, value)
  /\ UNCHANGED properties
  /\ call' = [op |-> "rawset", target |-> target, prop |-> prop, value |-> value,
              old |-> ReflectGet(fields, target, prop), viaProxy |-> FALSE,
              completion |-> "true"]
  /\ UNCHANGED <<binding, provided, held>>

\* the assignments the fixture's methods make: increment, setText, setOther on
\* MyState and setFoo on NestedState
MethodTargets == {<<"state", count>>, <<"state", text>>, <<"state", other>>, <<"nested", foo>>}

(***************************************************************************)
(* useSubscribe                                                            *)
(***************************************************************************)
\* the first render of a component calling useSubscribe(stateController, selector):
\* useState(0), useRef(selector(stateController)), the effect is scheduled
Mount(sel, stable, viaProxy) ==
  LET a == [selector |-> sel, stable |-> stable, viaProxy |-> viaProxy]
      s == selector(a, fields, properties)
  IN
  /\ ~mounted
  /\ mounted' = TRUE
  /\ args' = a
  /\ selectedValue' = s.value
  /\ properties' = s.props
  /\ queued' = 0
  /\ returned' = s.value
  /\ effectPending' = TRUE
  /\ call' = [op |-> "mount"]
  /\ UNCHANGED <<fields, provided, held>>

\* useEffect(..., [stateController, selector]): after a later render the effect
\* runs again only when a dependency changed; the model reference is the same
\* object on every render and an inline selector is a new function each time
DepsChanged(a) == ~a.stable

\* a variant of the later render that returns what the selector gives now
\* instead of the cache
useSubscribeReturnsSelected(cause) ==
  LET s == selector(args, fields, properties) IN
  /\ mounted
  /\ ~effectPending
  /\ properties' = s.props
  /\ queued' = 0
  /\ returned' = s.value
  /\ effectPending' = ~args.stable
  /\ call' = [op |-> "render", cause |-> cause, afterCheck |-> call.op = "check"]
  /\ UNCHANGED <<fields, mounted, args, selectedValue, provided, held>>

\* a later render of useSubscribe: the useRef argument selector(stateController)
\* is evaluated and dropped, the queued updaters are applied, the cache is
\* returned, and the effect is scheduled again when a dependency changed
useSubscribe(cause) ==
  LET s == selector(args, fields, properties) IN
  /\ mounted
  /\ ~effectPending
  /\ properties' = s.props
  /\ queued' = 0
  /\ returned' = selectedValue
  /\ effectPending' = DepsChanged(args)
  /\ call' = [op |-> "render", cause |-> cause, afterCheck |-> call.op = "check"]
  /\ UNCHANGED <<fields, mounted, args, selectedValue, provided, held>>

\* the component renders again because its parent rendered (rerender(ui))
ParentRender == useSubscribe("parent")

\* the component renders again because forceUpdate queued a state update
UpdateRender == queued > 0 /\ useSubscribe("update")

\* a variant of the comparison that looks into the values (deep equality)
ChangedDeeply(newValue, cached) == StrictNe(ContentOf(newValue), ContentOf(cached))

\* a variant of the comparison that compares with the ref object instead of
\* its .current: newValue !== selectedValue, true of every value
ChangedAgainstRef(newValue, cached) == TRUE

\* newValue !== selectedValue.current
Changed(newValue, cached) == StrictNe(newValue, cached)

\* a variant of the check that requests the render and leaves the cache
CheckKeepsCache(newValue, cached, q) ==
  IF StrictNe(newValue, cached)
  THEN [selectedValue |-> cached, queued |-> q + 1]
  ELSE [selectedValue |-> cached, queued |-> q]

\* a variant of the check that also reacts to the write made just before it,
\* whatever the value selected now
CheckNoticesWrites(newValue, cached, q) ==
  IF StrictNe(newValue, cached) \/ call.op \in {"set", "rawset"}
  THEN [selectedValue |-> newValue, queued |-> q + 1]
  ELSE [selectedValue |-> cached, queued |-> q]

\* a variant of the check with forceUpdate outside the if: a render is
\* requested on every run
CheckAlwaysUpdates(newValue, cached, q) ==
  IF Changed(newValue, cached)
  THEN [selectedValue |-> newValue, queued |-> q + 1]
  ELSE [selectedValue |-> cached, queued |-> q + 1]

\* the body of checkForUpdates: the cache and the number of queued updaters
\* after comparing the newly selected value with the cache
Check(newValue, cached, q) ==
  IF Changed(newValue, cached)
  THEN [selectedValue |-> newValue, queued |-> q + 1]
  ELSE [selectedValue |-> cached, queued |-> q]

\* the effect: checkForUpdates()
checkForUpdates ==
  LET s == selector(args, fields, properties)
      c == Check(s.value, selectedValue, queued)
  IN
  /\ mounted
  /\ effectPending
  /\ effectPending' = FALSE
  /\ properties' = s.props
  /\ selectedValue' = c.selectedValue
  /\ queued' = c.queued
  /\ call' = [op |-> "check", afterWrite |-> Overwrote]
  /\ UNCHANGED <<fields, mounted, args, returned, provided, held>>

(***************************************************************************)
(* ViewModelProvider and useViewModelContext                               *)
(***************************************************************************)
\* createContext<any>(null): what useContext gives outside every provider
NullContext == [proxy |-> FALSE, target |-> Null]

\* a variant of createProxy that keeps one proxy per wrapped object
createProxyShared(obj, live) ==
  [proxy |-> TRUE, target |-> obj, id |-> IF obj = "state" THEN 1 ELSE 2]

\* createProxy(obj): new Proxy(obj, handler) over an object, a new object
\* different from every live one
createProxy(obj, live) == [proxy |-> TRUE, target |-> obj, id |-> FreshId(live)]

\* the proxies some component still holds: the values the mounted providers
\* memoized and publish, and the one the last consumer received
LiveProxies ==
  {provided[i].id : i \in DOMAIN provided}
    \cup (IF call.op = "current" /\ ~call.threw THEN {call.value.id} ELSE {})

\* the models handed to a provider: the fixture's objects, or no object at all
Models == Objs \cup {Null}

\* <ViewModelProvider model={model}> rendered inside the innermost provider:
\* useViewModel wraps the model and the proxy is published to the subtree;
\* new Proxy throws a TypeError for a model that is not an object
ViewModelProvider(model) ==
  /\ Len(provided) < MaxDepth
  /\ IF TypeOf(model) = "object" /\ model # Null
     THEN /\ provided' = Append(provided, createProxy(model, LiveProxies))
          /\ call' = [op |-> "provide", completion |-> "rendered"]
     ELSE /\ UNCHANGED provided
          /\ call' = [op |-> "provide", completion |-> "TypeError"]
  /\ UNCHANGED <<heap, binding, held>>

\* a variant of the memo that recomputes on every render
MemoAlwaysRecomputes(memo, stateController, live) == createProxy(stateController, live)

\* useMemo(() => createProxy(stateController), [stateController]) on a later
\* render: the memoized proxy is kept while the dependency is the same object
useMemo(memo, stateController, live) ==
  IF memo.target = stateController THEN memo ELSE createProxy(stateController, live)

\* the provider with depth - 1 providers above it renders again with the
\* given model prop and publishes what useViewModel returns
RenderProvider(depth, model) ==
  /\ depth \in DOMAIN provided
  /\ provided' = [provided EXCEPT ![depth] = useMemo(provided[depth], model, LiveProxies)]
  /\ call' = [op |-> "rerender", depth |-> depth, model |-> model,
              before |-> provided[depth]]
  /\ UNCHANGED <<heap, binding, held>>

\* the innermost provider unmounts
UnmountProvider ==
  /\ provided # <<>>
  /\ provided' = SubSeq(provided, 1, Len(provided) - 1)
  /\ call' = [op |-> "unprovide"]
  /\ UNCHANGED <<heap, binding, held>>

\* a variant of the lookup that gives every consumer the innermost provider's
\* value, wherever the consumer is
UseInnermostContext(depth) ==
  IF provided = <<>> THEN NullContext ELSE provided[Len(provided)]

\* useContext(StateContext) in a component with depth providers above it
useContext(depth) == IF depth = 0 THEN NullContext ELSE provided[depth]

\* a variant of the scope check that never throws
ContextNeverThrows(context) == [threw |-> FALSE, value |-> context]

\* useViewModelContext: if (!context) throw new Error(...); return context
useViewModelContext(context) ==
  IF ~context.proxy
  THEN [threw |-> TRUE, value |-> NullContext]
  ELSE [threw |-> FALSE, value |-> context]

\* a component under depth providers calls useViewModelContext()
Current(depth) ==
  LET r == useViewModelContext(useContext(depth)) IN
  /\ call' = [op |-> "current", depth |-> depth, threw |-> r.threw, value |-> r.value]
  /\ UNCHANGED <<heap, binding, provided, held>>

\* a component under depth providers assigns through the model it gets from
\* useViewModelContext() (the readme's StateActions: viewModel.increment())
ContextSet(depth, prop, value) ==
  LET c == useViewModelContext(useContext(depth))
      r == set(fields, properties, c.value.target, prop, value)
  IN
  /\ ~c.threw
  /\ fields' = r.flds
  /\ call' = [op |-> "set", target |-> c.value.target, prop |-> prop, value |-> value,
              old |-> ReflectGet(fields, c.value.target, prop), viaProxy |-> TRUE,
              completion |-> r.completion]
  /\ UNCHANGED <<properties, binding, provided, held>>

(***************************************************************************)
(* Reads through the proxy by a caller that keeps what it read             *)
(***************************************************************************)
\* the proxy useViewModel(state) returned: the first proxy constructed
RootProxy == createProxy("state", {})

\* a reference to the raw object
RawRef(obj) == [proxy |-> FALSE, target |-> obj, id |-> 0]

\* the proxies the caller can reach: the root and the nested ones it kept
HeldProxies == {RootProxy.id} \cup {held[i].id : i \in {j \in DOMAIN held : held[j].proxy}}

\* the keys read on the root proxy and the keys read and written on what the
\* read of 'nested' gave
ReadKeys == {count, nested, other, atPropertiesKey}

NestedKeys == {foo, count, dottedKey}

\* the caller keeps the reference, forgetting the oldest when it holds MaxHeld
Keep(ref) == IF Len(held) < MaxHeld THEN Append(held, ref) ELSE Append(Tail(held), ref)

\* const v = proxy[prop] on the root proxy: handler.get runs, and when it
\* decides to wrap, createProxy(watchableValue) constructs a new proxy
Read(prop) ==
  LET g == get(fields, properties, "state", prop)
      ref == IF g.proxied THEN createProxy(g.value, HeldProxies) ELSE RawRef(g.value)
  IN
  /\ properties' = g.props
  /\ held' = IF g.value \in Objs THEN Keep(ref) ELSE held
  /\ call' = [op |-> "get", target |-> "state", prop |-> prop, value |-> g.value,
              proxied |-> g.proxied, result |-> ref]
  /\ UNCHANGED <<fields, binding, provided>>

\* v[prop] on a kept nested value: through handler.get when it is a proxy
HeldGet(i, prop) ==
  /\ i \in DOMAIN held
  /\ LET g == IF held[i].proxy
              THEN get(fields, properties, held[i].target, prop)
              ELSE [value |-> ReflectGet(fields, held[i].target, prop), proxied |-> FALSE,
                    props |-> properties]
     IN /\ properties' = g.props
        /\ call' = [op |-> "get", target |-> held[i].target, prop |-> prop,
                    value |-> g.value, proxied |-> g.proxied, result |-> RawRef(g.value)]
  /\ UNCHANGED <<fields, binding, provided, held>>

\* v[prop] = value on a kept nested value: through handler.set when it is a
\* proxy
HeldSet(i, prop, value) ==
  /\ i \in DOMAIN held
  /\ LET r == IF held[i].proxy
              THEN set(fields, properties, held[i].target, prop, value)
              ELSE [flds |-> RawAssign(fields, held[i].target, prop, value),
                    completion |-> "true"]
     IN /\ fields' = r.flds
        /\ call' = [op |-> "set", target |-> held[i].target, prop |-> prop, value |-> value,
                    old |-> ReflectGet(fields, held[i].target, prop),
                    viaProxy |-> held[i].proxy, completion |-> r.completion, via |-> i]
  /\ UNCHANGED <<properties, binding, provided, held>>

\* the declarations of NestedState, with the empty list added
ReadNestedDeclarations == NestedDeclarations \cup {Declared({})}

InitReads ==
  \E stateDecl \in StateDeclarations, nestedDecl \in ReadNestedDeclarations :
    InitWith(stateDecl, nestedDecl)

NextReads ==
  \/ \E prop \in ReadKeys : Read(prop)
  \/ \E value \in WriteValues : RawSet("state", foo, value)
  \/ \E i \in 1..MaxHeld, prop \in NestedKeys : HeldGet(i, prop)
  \/ \E i \in 1..MaxHeld, prop \in NestedKeys, value \in WriteValues : HeldSet(i, prop, value)

SpecReads == InitReads /\ [][NextReads]_vars

(***************************************************************************)
(* The component and its view model: the fixture's methods called on the   *)
(* proxy or on the raw object, and the render cycle                        *)
(***************************************************************************)
Next ==
  \/ \E prop \in {count, text, other}, value \in Primitives :
       value \in ValuesOf(prop) /\ ProxySet(prop, value)
  \/ \E value \in ValuesOf(foo) : NestedSet(foo, value)
  \/ \E t \in MethodTargets, value \in Primitives :
       value \in ValuesOf(t[2]) /\ RawSet(t[1], t[2], value)
  \/ \E sel \in Selectors, stable \in BOOLEAN, viaProxy \in BOOLEAN :
       Mount(sel, stable, viaProxy)
  \/ ParentRender
  \/ UpdateRender
  \/ checkForUpdates

Spec == Init /\ [][Next]_vars

(***************************************************************************)
(* The binding alone: the fixture as the tests drive it (methods called on *)
(* the raw objects, renders, effects), the two classes declaring their     *)
(* lists in 'properties', with the selectors of BindingSelectors           *)
(***************************************************************************)
InitBinding ==
  /\ Init
  /\ properties = [o \in Objs |-> IF o = "state" THEN Declared({count, text})
                                                ELSE Declared({foo})]

NextBinding ==
  \/ \E t \in MethodTargets, value \in Primitives :
       value \in ValuesOf(t[2]) /\ RawSet(t[1], t[2], value)
  \/ \E sel \in BindingSelectors, stable \in BOOLEAN, viaProxy \in BOOLEAN :
       Mount(sel, stable, viaProxy)
  \/ ParentRender
  \/ UpdateRender
  \/ checkForUpdates

SpecBinding == InitBinding /\ [][NextBinding]_vars

(***************************************************************************)
(* The proxy handler alone: any key assigned through the root proxy or     *)
(* through proxy.nested                                                    *)
(***************************************************************************)
NextHandler ==
  \/ \E prop \in WriteKeys, value \in WriteValues : ProxySet(prop, value)
  \/ \E prop \in WriteKeys, value \in WriteValues : NestedSet(prop, value)

SpecHandler == Init /\ [][NextHandler]_vars

(***************************************************************************)
(* The context bridge: providers mounting and unmounting, consumers reading *)
(* the current model and assigning through it                              *)
(***************************************************************************)
NextContext ==
  \/ \E model \in Models : ViewModelProvider(model)
  \/ \E depth \in 1..MaxDepth, model \in Objs : RenderProvider(depth, model)
  \/ UnmountProvider
  \/ \E depth \in 0..MaxDepth : depth <= Len(provided) /\ Current(depth)
  \/ \E depth \in 1..MaxDepth, prop \in {count, foo}, value \in WriteValues :
       depth <= Len(provided) /\ ContextSet(depth, prop, value)

SpecContext == Init /\ [][NextContext]_vars

(***************************************************************************)
(* Properties                                                              *)
(***************************************************************************)
\* the step is an assignment made through a proxy (the set trap ran)
TrapStep == call'.op = "set" /\ call'.viaProxy

\* the step is an assignment, through a proxy or on the raw object
WriteStep == call'.op \in {"set", "rawset"}

\* the key contains the path separator '.'
HasSeparator(prop) == KeyType(prop) = "string" /\ \E i \in DOMAIN Chars(prop) : Chars(prop)[i] = "."

\* the key is in the object's declared observable list
IsDeclared(props, target, prop) == props[target].has /\ prop \in props[target].list

\* C1: a write set(target, key, value) through a proxy changes the target's
\* key to value if and only if value is strictly different from target[key]
\* and key is in the target's declared list or is a string containing '.';
\* in every other case every field of the target is left unchanged.  (The
\* declared list is the one the target carries when the trap runs.)
C1_SetAppliedIff ==
  [][TrapStep =>
      LET t == call'.target
          k == call'.prop
          v == call'.value
      IN IF StrictNe(call'.old, v)
            /\ (IsDeclared(properties', t, k) \/ HasSeparator(k))
         THEN fields' = [fields EXCEPT ![t][k] = v]
         ELSE fields' = fields]_vars

(***************************************************************************)
(* The subscribed component                                                *)
(***************************************************************************)
\* what the component's selector gives in the current state and in the next
SelectedNow == selector(args, fields, properties).value

SelectedNext == selector(args, fields', properties').value

\* every key the selector reads is declared by the object it is read from
ReadsOnlyDeclared ==
  /\ IsDeclared(properties, "state", Head(args.selector))
  /\ Len(args.selector) > 1 => IsDeclared(properties, SelectedTarget(args), SelectedProp(args))

CheckStep == call'.op = "check"

RenderStep == call'.op = "render"

\* the check compares and, on a difference, stores the new value and queues
\* exactly one update
CheckDetects ==
  [][(CheckStep /\ StrictNe(SelectedNow, selectedValue))
      => (selectedValue' = SelectedNow /\ queued' = queued + 1)]_vars

\* C2: for every model M and declared property p of M, writing a value to p
\* with old != new makes any selector reading p (directly or through nested
\* observable objects) give the new value at the next check, and the check
\* requests exactly one re-render, whose render returns the new value.
C2_DeclaredWriteReflected ==
  /\ [][(WriteStep /\ mounted /\ call'.target = SelectedTarget(args) /\ call'.prop = SelectedProp(args)
          /\ ReadsOnlyDeclared
          /\ StrictNe(call'.old, call'.value) /\ ~StrictNe(SelectedNow, selectedValue))
        => (SelectedNext = call'.value /\ StrictNe(SelectedNext, selectedValue))]_vars
  /\ CheckDetects
  /\ [][RenderStep => returned' = selectedValue]_vars

\* C3: mutating a property q that is not in M's declared list, through the
\* proxy or on the raw object, never changes the value of a selector that
\* reads only declared properties and never queues a re-render for its
\* binding; a check queues one only when the selected value differs from
\* the cache.
C3_UndeclaredWriteUnseen ==
  /\ [][(WriteStep /\ mounted /\ ~IsDeclared(properties, call'.target, call'.prop)
          /\ ReadsOnlyDeclared)
        => (SelectedNext = SelectedNow /\ UNCHANGED <<selectedValue, queued, effectPending>>)]_vars
  /\ [][(CheckStep /\ ~StrictNe(SelectedNow, selectedValue)) => queued' = queued]_vars

\* C3's case: an undeclared property was changed on the raw object while a
\* component subscribed to declared properties only is mounted
C3_Witness ==
  /\ mounted
  /\ ReadsOnlyDeclared
  /\ call.op = "rawset" /\ call.target = "state" /\ call.prop = other
  /\ ~IsDeclared(properties, "state", other)
  /\ StrictNe(call.old, call.value)
  /\ fields["state"][other] = call.value

\* the component has nothing scheduled: no effect to run, no update queued
Idle == mounted /\ ~effectPending /\ queued = 0

\* C4: a state update made through the proxy (a changed value assigned to a
\* declared property) makes every mounted component subscribed to that
\* property render the new value without another cause of rendering: after
\* the update, while the component still shows another value, a check or a
\* render of the component is scheduled.
C4_ProxyUpdateSchedulesRender ==
  (/\ mounted
   /\ call.op = "set" /\ call.viaProxy /\ call.completion = "true"
   /\ call.target = SelectedTarget(args) /\ call.prop = SelectedProp(args)
   /\ IsDeclared(properties, call.target, call.prop)
   /\ fields[call.target][call.prop] = call.value
   /\ StrictNe(call.value, returned))
  => ~Idle

\* C5: with a binding selecting declared property p, a write that changes
\* only another declared property r leaves the selected value, the cache
\* and the queue of the binding untouched; a check queues a re-render (one)
\* only when the selected value differs from the cache, and every render
\* returns the cache.
C5_SelectiveRerender ==
  /\ [][(WriteStep /\ mounted /\ IsDeclared(properties, call'.target, call'.prop)
          /\ ~(call'.target = SelectedTarget(args) /\ call'.prop = SelectedProp(args)))
        => (SelectedNext = SelectedNow /\ UNCHANGED <<selectedValue, queued, returned>>)]_vars
  /\ [][(CheckStep /\ queued' # queued)
        => (StrictNe(SelectedNow, selectedValue) /\ queued' = queued + 1)]_vars
  /\ [][RenderStep => returned' = selectedValue]_vars

\* C5's case (scenario A): the component subscribed to count shows the
\* incremented count and text is then changed through the proxy
C5_Witness ==
  /\ Idle
  /\ args.selector = <<count>>
  /\ selectedValue = "1" /\ returned = "1"
  /\ call.op = "set" /\ call.viaProxy /\ call.prop = text
  /\ StrictNe(call.old, call.value)
  /\ fields["state"][text] = call.value

\* C6: with the parent declaring 'nested' and the nested object declaring
\* 'foo', a changed value assigned to nested.foo through the proxy is
\* applied, a check detects it, and an assignment to the undeclared 'other'
\* through the proxy is not applied.
C6_NestedWriteApplied ==
  /\ [][(call'.op = "set" /\ call'.target = "nested" /\ call'.prop = foo
          /\ IsDeclared(properties, "state", nested) /\ IsDeclared(properties, "nested", foo)
          /\ StrictNe(call'.old, call'.value))
        => fields'["nested"][foo] = call'.value]_vars
  /\ CheckDetects
  /\ [][(TrapStep /\ call'.target = "state" /\ call'.prop = other
          /\ ~IsDeclared(properties, "state", other))
        => fields' = fields]_vars

\* C7: a changed value assigned to nested.foo through proxy.nested reaches
\* the selector s => s.nested.foo exactly when the parent declares 'nested'
\* and the nested object declares 'foo'.
C7_BothDeclarationsRequired ==
  [][(call'.op = "set" /\ call'.target = "nested" /\ call'.prop = foo
       /\ StrictNe(call'.old, call'.value))
      => ((fields'["nested"][foo] = call'.value)
           <=> (IsDeclared(properties, "state", nested) /\ IsDeclared(properties, "nested", foo)))]_vars

\* C8: every write through a proxy completes by reporting success (the trap
\* returns true) and never raises an error.
C8_SetNeverThrows == (call.op = "set" /\ call.viaProxy) => call.completion = "true"

\* C9: writing to a declared property the value it already holds leaves
\* the model's fields unchanged and the binding untouched, and the check
\* that follows queues no re-render.
C9_IdempotentWrite ==
  /\ [][(WriteStep /\ IsDeclared(properties, call'.target, call'.prop)
          /\ ~StrictNe(call'.old, call'.value))
        => (fields' = fields /\ SelectedNext = SelectedNow /\ UNCHANGED binding)]_vars
  /\ [][(CheckStep /\ ~StrictNe(SelectedNow, selectedValue))
        => UNCHANGED <<selectedValue, queued>>]_vars

\* C9's case: the value count already holds was written to it again through
\* the proxy while a component subscribed to count shows that value
C9_Witness ==
  /\ Idle
  /\ args.selector = <<count>>
  /\ call.op = "set" /\ call.viaProxy /\ call.target = "state" /\ call.prop = count
  /\ IsDeclared(properties, "state", count)
  /\ call.old = "1" /\ call.value = "1"
  /\ selectedValue = "1" /\ returned = "1"

\* C10: useViewModelContext() raises the scope error exactly when no
\* provider encloses the caller; inside a provider it returns the proxy the
\* nearest provider published.
C10_ScopeError ==
  call.op = "current" =>
    /\ call.threw <=> call.depth = 0
    /\ call.depth > 0 => (call.value = provided[call.depth] /\ call.value.proxy)

\* C10's case: a consumer outside every provider got the scope error
C10_Witness == call.op = "current" /\ call.depth = 0 /\ call.threw /\ provided = <<>>

\* C11: with nested providers a consumer receives the proxy published by the
\* nearest provider above it, and no other: a consumer above an inner
\* provider still receives the outer proxy, which is a different object from
\* every other published proxy.
C11_NearestProvider ==
  (call.op = "current" /\ call.depth > 0)
    => /\ ~call.threw
       /\ call.value = provided[call.depth]
       /\ \A d \in DOMAIN provided : d # call.depth => provided[d].id # call.value.id

\* C11's case: under two nested providers of the same model, a consumer
\* outside the inner provider's subtree received the outer proxy
C11_Witness ==
  /\ Len(provided) = 2
  /\ provided[1].target = provided[2].target
  /\ call.op = "current" /\ call.depth = 1
  /\ call.value = provided[1]

(***************************************************************************)
(* The check cycle of a binding                                            *)
(***************************************************************************)
\* the check found the newly selected value strictly different from the cache
Detected == StrictNe(SelectedNow, selectedValue)

\* C12: a check runs after every render of the component, the first and
\* every later one, whether or not the model or the selector is another
\* object than at the render before: each render schedules the effect, and
\* the check compares the newly selected value with the cache.
C12_CheckAfterEveryRender ==
  /\ [][(call'.op = "mount" \/ RenderStep) => effectPending']_vars
  /\ [][CheckStep => selectedValue' = (IF Detected THEN SelectedNow ELSE selectedValue)]_vars

\* C13: a check that finds the selected value different from the cache
\* stores the new value and queues exactly one update, leaving what the
\* last render returned; a render returns the cache as it is, so the new
\* value is first returned by the next render; and an update is queued by
\* nothing but a check that detected a change, one at a time.
C13_DetectedChange ==
  /\ [][(CheckStep /\ Detected)
        => (selectedValue' = SelectedNow /\ queued' = queued + 1 /\ returned' = returned)]_vars
  /\ [][RenderStep => (returned' = selectedValue /\ selectedValue' = selectedValue)]_vars
  /\ [][queued' > queued => (CheckStep /\ Detected /\ queued' = queued + 1)]_vars

\* C13's case: the check after a render that returned "0" found count changed
\* to "1", cached it and queued one update
C13_Witness ==
  /\ call.op = "check"
  /\ args.selector = <<count>>
  /\ returned = "0" /\ selectedValue = "1" /\ fields["state"][count] = "1"
  /\ queued = 1

\* C14: a check that finds the selected value strictly equal to the cache
\* leaves the cache, the queue and the returned value unchanged; the cache
\* changes only at a check that detects a change, and every render returns
\* the cache.
C14_NoChangeNoRender ==
  /\ [][(CheckStep /\ ~Detected) => UNCHANGED <<selectedValue, queued, returned>>]_vars
  /\ [][(mounted /\ selectedValue' # selectedValue) => (CheckStep /\ Detected)]_vars
  /\ [][RenderStep => returned' = selectedValue]_vars

\* C14's case: after a write to another property and a render, the check
\* found count equal to the cache and requested nothing
C14_Witness ==
  /\ call.op = "check"
  /\ args.selector = <<count>>
  /\ selectedValue = "1" /\ returned = "1" /\ fields["state"][count] = "1"
  /\ fields["state"][text] = "1"
  /\ queued = 0

\* C15: the outcome of a check is decided by the model as it is when the
\* check runs: the cache becomes the value selected now and one update is
\* queued exactly when that value differs from the cache; in particular a
\* check that follows writes which took the selected property away from the
\* cached value and back changes nothing.
C15_OnlyFinalStateMatters ==
  /\ [][CheckStep =>
        /\ selectedValue' = (IF Detected THEN SelectedNow ELSE selectedValue)
        /\ queued' = (IF Detected THEN queued + 1 ELSE queued)]_vars
  /\ [][(CheckStep /\ call'.afterWrite /\ ~Detected)
        => UNCHANGED <<selectedValue, queued>>]_vars

\* C15's case: count, cached as "0", was written away from "0" and then back
\* to "0" before the check ran, and the check requested nothing
C15_Witness ==
  /\ call.op = "check" /\ call.afterWrite
  /\ args.selector = <<count>>
  /\ selectedValue = "0" /\ returned = "0" /\ fields["state"][count] = "0"
  /\ queued = 0

\* C16: values are compared by strict identity: with a selector that
\* returns a newly constructed object on every call, every check stores the
\* new object, different from the cached one, and queues an update, also
\* when the contents are equal.
C16_IdentityComparison ==
  [][(CheckStep /\ Constructs(args.selector))
      => /\ selectedValue' # selectedValue
         /\ selectedValue' = SelectedNow
         /\ queued' = queued + 1]_vars

\* C16's case: the check replaced the cached object by a new one of equal
\* content and queued an update
C16_Witness ==
  /\ call.op = "check"
  /\ Constructs(args.selector)
  /\ returned \in Composites /\ selectedValue \in Composites
  /\ selectedValue # returned
  /\ ContentOf(selectedValue) = ContentOf(returned)
  /\ queued = 1

\* the step is a check that ran right after the render that followed a
\* check: no assignment was made since the check before
SettledCheckStep == CheckStep /\ call.op = "render" /\ call.afterCheck

\* C21: for a binding whose selector returns primitive values, once
\* mutations have stopped at most one more re-render is requested: a check
\* that follows a check and its render with no mutation in between detects
\* nothing, the cache is then the value selected from the model, the last
\* render returned it and no update is queued.
C21_Quiescent ==
  [][(SettledCheckStep /\ ~Constructs(args.selector))
      => /\ ~Detected
         /\ selectedValue' = SelectedNext
         /\ returned' = selectedValue'
         /\ queued' = 0]_vars

(***************************************************************************)
(* Reads through the proxy                                                 *)
(***************************************************************************)
\* the step is a read through a proxy (the get trap ran)
ReadStep == call'.op = "get"

\* the value read is an object that carries a declaration
CarriesDeclaration(props, value) == value \in Objs /\ props[value].has

\* C17: a read get(target, key) through the proxy returns a new proxy over
\* the value exactly when the value is a non-null object carrying a
\* declaration and key is in the target's declared list; otherwise the raw
\* value is returned.
C17_WrapsDeclaredOnly ==
  [][ReadStep =>
      (call'.proxied <=> (/\ CarriesDeclaration(properties, call'.value)
                          /\ IsDeclared(properties, call'.target, call'.prop)))]_vars

\* C18: a read through the proxy leaves every field of every object
\* unchanged, and changes a declared list only when that list is empty or
\* unset, to the own keys of the parent; a non-empty declared list is the
\* same after any read.
C18_ReadLeavesGraph ==
  [][ReadStep =>
      /\ fields' = fields
      /\ \A o \in Objs :
           properties'[o] # properties[o]
             => /\ properties[o].list = {}
                /\ properties'[o] = Declared(ObjectKeys(fields, properties, call'.target))]_vars

\* the last reference the caller kept
LastHeld(h) == h[Len(h)]

\* C19: nested wrapping is not memoized: every read of the nested
\* observable property through the root proxy constructs a proxy that is
\* another object than the root proxy and than every proxy read before,
\* over the same nested object; a write through one of them is what a read
\* through any other gives; and nested proxies come into being by reads
\* only, none exists when only the root has been wrapped.
C19_NotMemoized ==
  /\ [][(ReadStep /\ call'.target = "state" /\ call'.proxied)
        => /\ held' # held
           /\ LastHeld(held') = call'.result
           /\ call'.result.proxy /\ call'.result.target = call'.value
           /\ call'.result.id # RootProxy.id
           /\ \A i \in DOMAIN held : held[i].proxy => held[i].id # call'.result.id]_vars
  /\ [](\A i, j \in DOMAIN held :
          (i # j /\ held[i].proxy /\ held[j].proxy) => held[i].id # held[j].id)
  /\ [][(call'.op = "set" /\ call'.viaProxy)
        => \A j \in DOMAIN held :
             (held[j].proxy /\ held[j].target = call'.target)
               => get(fields', properties', held[j].target, call'.prop).value
                    = ReflectGet(fields', call'.target, call'.prop)]_vars
  /\ [][held' # held => (ReadStep /\ call'.target = "state")]_vars

\* C19's case: two reads of 'nested' gave two different proxies over the
\* same object, and a changed value written through the first is read
\* through the second
C19_Witness ==
  /\ Len(held) = 2
  /\ held[1].proxy /\ held[2].proxy
  /\ held[1].target = held[2].target
  /\ held[1].id # held[2].id
  /\ call.op = "set" /\ call.via = 1 /\ StrictNe(call.old, call.value)
  /\ get(fields, properties, held[2].target, call.prop).value = call.value

\* C22: once a nested watchable object has been read through the proxy of
\* its (non-array) parent, its list is the parent's own keys as they were
\* at that read, whatever it declared, and writes do not change it; a write
\* of a changed value through the nested proxy is applied exactly when the
\* key is in that list or contains '.', and any other write through it
\* leaves every field unchanged.
C22_GateIsParentKeys ==
  /\ [][(ReadStep /\ call'.target = "state" /\ call'.proxied)
        => properties'[call'.value] = Declared(ObjectKeys(fields, properties, "state"))]_vars
  /\ [][call'.op \in {"set", "rawset"} => properties' = properties]_vars
  /\ [][(TrapStep /\ call'.target = "nested")
        => IF StrictNe(call'.old, call'.value)
              /\ (call'.prop \in properties["nested"].list \/ HasSeparator(call'.prop))
           THEN fields' = [fields EXCEPT !["nested"][call'.prop] = call'.value]
           ELSE fields' = fields]_vars

\* C22's case: a nested object whose list holds neither 'count' nor the
\* parent's later key was read through the proxy; 'foo' then became an own
\* key of the parent, and a changed value written to 'count' through the
\* nested proxy was applied, the gate being the parent's keys at the read
C22_Witness ==
  /\ call.op = "set" /\ call.viaProxy /\ call.target = "nested" /\ call.prop = count
  /\ StrictNe(call.old, call.value)
  /\ fields["nested"][count] = call.value
  /\ fields["state"][foo] # Absent
  /\ foo \notin properties["nested"].list
  /\ count \in properties["nested"].list

\* C20: a provider rendered again with the same model instance publishes the
\* proxy it published before, and it constructs a new root proxy only when
\* the model instance changed; the other providers' proxies are untouched.
C20_ProxyMemoized ==
  [][call'.op = "rerender" =>
      LET d == call'.depth IN
      /\ (call'.model = provided[d].target) <=> (provided'[d] = provided[d])
      /\ provided'[d].target = call'.model
      /\ \A e \in DOMAIN provided : e # d => provided'[e] = provided[e]
      /\ provided'[d] # provided[d] => \A e \in DOMAIN provided : provided'[d].id # provided[e].id]_vars

\* C20's case: a provider was rendered again with the model it already had
\* and publishes the same proxy
C20_Witness ==
  /\ call.op = "rerender"
  /\ call.model = call.before.target
  /\ provided[call.depth] = call.before

====
